---- MODULE Spec2Model ----
(***************************************************************************)
(* Model of src/download_logs.py: download_last_n_logs and the functions   *)
(* it calls (connect_to_drone, request_log_list, download_log), run        *)
(* against a MAVLink device and link that may misbehave a bounded number   *)
(* of times (timeouts, foreign LOG_DATA, wrong lengths, stale answers,     *)
(* repeated LOG_ENTRY, missing heartbeat, storage errors); and of          *)
(* src/filter_log_no_gnss.py: filter_log_without_gps and has_gps_location, *)
(* run on an input log of a few messages (specification SpecFilter).       *)
(*                                                                         *)
(* Byte strings are kept run-length encoded.  The byte (id, pos) is the    *)
(* byte a LOG_DATA message of log `id` carries for position `pos` of that  *)
(* log; the run [id, from, n] stands for the n bytes (id, from), ...,      *)
(* (id, from + n - 1); a byte string is a sequence of non-empty runs in    *)
(* which no run continues the one before it, so two byte strings are equal *)
(* exactly when their encodings are.  The device's log `id` is the string  *)
(* Bytes(id, 0, LogSize(id)).                                              *)
(***************************************************************************)
EXTENDS Integers, Sequences, FiniteSets, TLC

\* ---- program constants
chunk_size == 90     \* download_log: chunk_size = 90
DataLen == 90        \* len(msg.data): LOG_DATA carries a fixed 90 byte array

\* ---- bounds of the model
MaxId == 3           \* the device advertises logs 1..MaxId; at most MaxId LOG_ENTRY are read
MaxNum == 2          \* --num_logs is drawn from 0..MaxNum
MaxRetries == 2      \* --retries is drawn from 0..MaxRetries
MaxFaults == 2       \* misbehaviours of device, link and storage in one run
MaxLog == 2          \* filter_log_no_gnss.py reads an input log of at most MaxLog messages

Ids == 1..MaxId

\* the size of the device's log i: an empty log, a one-chunk log, a three-chunk log
LogSize(i) == IF i = 1 THEN 0 ELSE IF i % 2 = 0 THEN 20 ELSE 200
TimeUtc(i) == 1000 + i

\* the lengths a LOG_DATA message may declare
Lengths == {0, 20, 90, 120}

Min(a, b) == IF a < b THEN a ELSE b
Last(s) == s[Len(s)]

\* Python's s[:n] on a list, for n >= 0
Take(s, n) == SubSeq(s, 1, Min(n, Len(s)))

\* ---- byte strings (bytes, bytearray), run-length encoded
Bytes(i, from, n) == IF n <= 0 THEN <<>> ELSE <<[id |-> i, from |-> from, n |-> n]>>

\* len(b)
RECURSIVE ByteLen(_)
ByteLen(b) == IF b = <<>> THEN 0 ELSE b[1].n + ByteLen(Tail(b))

\* a + b (bytearray.extend)
Join(a, b) ==
  IF a = <<>> THEN b
  ELSE IF b = <<>> THEN a
  ELSE LET x == Last(a)
           y == b[1]
       IN  IF x.id = y.id /\ x.from + x.n = y.from
             THEN SubSeq(a, 1, Len(a) - 1) \o <<[x EXCEPT !.n = x.n + y.n]>> \o Tail(b)
             ELSE a \o b

\* b[:n] for n >= 0
RECURSIVE Prefix(_, _)
Prefix(b, n) ==
  IF n <= 0 \/ b = <<>> THEN <<>>
  ELSE IF b[1].n >= n THEN <<[b[1] EXCEPT !.n = n]>>
  ELSE <<b[1]>> \o Prefix(Tail(b), n - b[1].n)

\* LOG_ENTRY of log i, and the entry a device without logs sends
LogEntry(i) == [id |-> i, num_logs |-> MaxId, last_log_num |-> MaxId,
                size |-> LogSize(i), time_utc |-> TimeUtc(i)]
NoLogsEntry == [id |-> 0, num_logs |-> 0, last_log_num |-> 0, size |-> 0, time_utc |-> 0]

\* LOG_DATA: the fields download_log reads (id, length, data) and the offset it answers
LogData(i, o, n) == [id |-> i, ofs |-> o, length |-> n]
\* msg.data: DataLen bytes of log msg.id from msg.ofs on
MsgData(m) == Bytes(m.id, m.ofs, DataLen)

VARIABLES
  pc,          \* position in download_last_n_logs and its callees
  heartbeat,   \* whether wait_heartbeat saw a heartbeat
  retries,     \* argument --retries
  num_logs,    \* argument --num_logs
  logs,        \* request_log_list: entries in arrival order
  list_end,    \* history: what ended request_log_list ("timeout" or "nologs")
  log_list,    \* download_last_n_logs: the list request_log_list returned
  idx,         \* number of iterations of `for log in log_list[:num_logs]` begun
  log_id,      \* download_log: argument
  log_size,    \* download_log: argument
  attempt,     \* download_log: loop variable of `for attempt in range(retries)`
  offset,      \* download_log: offset
  log_data,    \* download_log: log_data (bytearray)
  rounds,      \* history: the request rounds of the current download_log call
  completed,   \* history: some attempt's while loop ran to its end (offset >= log_size)
  started,     \* history: the ids download_log was called with, in order
  requested,   \* history: the ids named by a LOG_REQUEST_DATA of this run
  outcome,     \* history: per download_log call, how it ended
  files,       \* the files written, in order: log id, the log_size written for, content
  faults,      \* misbehaviours so far
  fpc,         \* filter_log_no_gnss.py: where the script is; "off" while it is not run
  mlog,        \* the messages of the input log not read yet
  outfile,     \* the messages written to the output log, in order
  seen         \* history: the messages read, each with what was done with it

vars == <<pc, heartbeat, retries, num_logs, logs, list_end, log_list, idx, log_id, log_size,
          attempt, offset, log_data, rounds, completed, started, requested,
          outcome, files, faults, fpc, mlog, outfile, seen>>

filter == <<fpc, mlog, outfile, seen>>

args == <<retries, num_logs>>
listing == <<logs, list_end, log_list>>
locals == <<log_id, log_size, attempt, offset, log_data>>
history == <<rounds, completed, started, requested, outcome, files>>

Fault == faults < MaxFaults /\ faults' = faults + 1

Init ==
  /\ pc = "connect"
  /\ heartbeat = FALSE
  /\ retries \in 0..MaxRetries
  /\ num_logs \in 0..MaxNum
  /\ logs = <<>>
  /\ list_end = ""
  /\ log_list = <<>>
  /\ idx = 0
  /\ log_id = 0
  /\ log_size = 0
  /\ attempt = 0
  /\ offset = 0
  /\ log_data = <<>>
  /\ rounds = <<>>
  /\ completed = FALSE
  /\ started = <<>>
  /\ requested = {}
  /\ outcome = <<>>
  /\ files = <<>>
  /\ faults = 0
  /\ fpc = "off"
  /\ mlog = <<>>
  /\ outfile = <<>>
  /\ seen = <<>>

\* ---- connect_to_drone

\* wait_heartbeat(timeout=10) returns the heartbeat or, on timeout, None; the
\* result is not looked at and the connection is returned either way.
ConnectToDrone ==
  /\ pc = "connect"
  /\ \/ heartbeat' = TRUE /\ faults' = faults
     \/ heartbeat' = FALSE /\ Fault
  /\ pc' = "list_request"
  /\ UNCHANGED <<filter, args, listing, idx, locals, history>>

\* ---- request_log_list

\* sorted(logs, key=id, reverse=True): stable, so equal ids keep their arrival order
RECURSIVE InsertDesc(_, _)
InsertDesc(s, e) ==
  IF s = <<>> THEN <<e>>
  ELSE IF s[1].id >= e.id THEN <<s[1]>> \o InsertDesc(Tail(s), e)
  ELSE <<e>> \o s

RECURSIVE SortedDesc(_)
SortedDesc(s) ==
  IF s = <<>> THEN <<>>
  ELSE InsertDesc(SortedDesc(SubSeq(s, 1, Len(s) - 1)), Last(s))

SendLogRequestList ==
  /\ pc = "list_request"
  /\ logs' = <<>>
  /\ pc' = "list_wait"
  /\ UNCHANGED <<filter, heartbeat, args, list_end, log_list, idx, locals, history, faults>>

\* variant: the entry whose id is last_log_num ends the enumeration
RecvLogEntry_ReturnsOnLast ==
  /\ pc = "list_wait"
  /\ Len(logs) < MaxId
  /\ \E i \in Ids :
       LET msg == LogEntry(i) IN
       /\ IF \E k \in 1..Len(logs) : logs[k].id = i THEN Fault ELSE faults' = faults
       /\ logs' = Append(logs, [id |-> msg.id, size |-> msg.size, time_utc |-> msg.time_utc])
       /\ IF msg.id = msg.last_log_num
            THEN list_end' = "last" /\ log_list' = SortedDesc(logs') /\ pc' = "check"
            ELSE UNCHANGED <<list_end, log_list, pc>>
  /\ UNCHANGED <<filter, heartbeat, args, idx, locals, history>>

\* a LOG_ENTRY other than the no-logs entry arrives: it is appended
RecvLogEntry ==
  /\ pc = "list_wait"
  /\ Len(logs) < MaxId
  /\ \E i \in Ids :
       LET msg == LogEntry(i) IN
       /\ ~(msg.id = 0 /\ msg.num_logs = 0)
       /\ IF \E k \in 1..Len(logs) : logs[k].id = i THEN Fault ELSE faults' = faults
       /\ logs' = Append(logs, [id |-> msg.id, size |-> msg.size, time_utc |-> msg.time_utc])
  /\ pc' = "list_wait"
  /\ UNCHANGED <<filter, heartbeat, args, list_end, log_list, idx, locals, history>>

\* variant: the entries are returned as collected
ReturnLogList_Unsorted ==
  /\ log_list' = logs
  /\ logs' = logs
  /\ pc' = "check"

\* the return statement of request_log_list, reached by either break; `logs`
\* is kept until the caller has looked at the result
ReturnLogList ==
  /\ log_list' = SortedDesc(logs)
  /\ logs' = logs
  /\ pc' = "check"

\* variant: a timeout of the wait for an entry returns an empty list
LogEntryTimeout_Drops ==
  /\ pc = "list_wait"
  /\ list_end' = "timeout"
  /\ log_list' = <<>>
  /\ logs' = <<>>
  /\ pc' = "check"
  /\ UNCHANGED <<filter, heartbeat, args, idx, locals, history, faults>>

\* recv_match returns None
LogEntryTimeout ==
  /\ pc = "list_wait"
  /\ list_end' = "timeout"
  /\ ReturnLogList
  /\ UNCHANGED <<filter, heartbeat, args, idx, locals, history, faults>>

\* variant: the no-logs entry is collected like any other entry
RecvNoLogs_Appends ==
  /\ pc = "list_wait"
  /\ logs = <<>>
  /\ list_end' = "nologs"
  /\ LET msg == NoLogsEntry IN
       /\ log_list' = <<[id |-> msg.id, size |-> msg.size, time_utc |-> msg.time_utc]>>
       /\ logs' = log_list'
  /\ pc' = "check"
  /\ UNCHANGED <<filter, heartbeat, args, idx, locals, history, faults>>

\* a device without logs answers with the entry id = 0, num_logs = 0
RecvNoLogs ==
  /\ pc = "list_wait"
  /\ logs = <<>>
  /\ LET msg == NoLogsEntry IN msg.id = 0 /\ msg.num_logs = 0
  /\ list_end' = "nologs"
  /\ ReturnLogList
  /\ UNCHANGED <<filter, heartbeat, args, idx, locals, history, faults>>

\* ---- download_last_n_logs

\* variant: log_list[-num_logs:], the entries at the end of the list
Selected_Tail ==
  SubSeq(log_list, Len(log_list) - Min(num_logs, Len(log_list)) + 1, Len(log_list))

\* log_list[:num_logs]
Selected == Take(log_list, num_logs)

NoLogsFound ==
  /\ pc = "check"
  /\ log_list = <<>>
  /\ logs' = <<>>
  /\ pc' = "done"
  /\ UNCHANGED <<filter, heartbeat, args, list_end, log_list, idx, locals, history, faults>>

LogsFound ==
  /\ pc = "check"
  /\ log_list # <<>>
  /\ logs' = <<>>
  /\ idx' = 0
  /\ pc' = "next"
  /\ UNCHANGED <<filter, heartbeat, args, list_end, log_list, locals, history, faults>>

\* variant: one buffer serves all calls (log_data is not created anew per call)
NextLog_KeepsBuffer ==
  /\ pc = "next"
  /\ idx < Len(Selected)
  /\ idx' = idx + 1
  /\ log_id' = Selected[idx + 1].id
  /\ log_size' = Selected[idx + 1].size
  /\ offset' = 0
  /\ log_data' = log_data
  /\ attempt' = 0
  /\ rounds' = <<>>
  /\ completed' = FALSE
  /\ started' = Append(started, Selected[idx + 1].id)
  /\ pc' = "loop"
  /\ UNCHANGED <<filter, heartbeat, args, listing, requested, outcome, files, faults>>

\* the next iteration of the for loop calls download_log, which sets up its locals
NextLog ==
  /\ pc = "next"
  /\ idx < Len(Selected)
  /\ idx' = idx + 1
  /\ log_id' = Selected[idx + 1].id
  /\ log_size' = Selected[idx + 1].size
  /\ offset' = 0
  /\ log_data' = <<>>
  /\ attempt' = 0
  /\ rounds' = <<>>
  /\ completed' = FALSE
  /\ started' = Append(started, Selected[idx + 1].id)
  /\ pc' = "loop"
  /\ UNCHANGED <<filter, heartbeat, args, listing, requested, outcome, files, faults>>

LoopEnd ==
  /\ pc = "next"
  /\ idx >= Len(Selected)
  /\ pc' = "done"
  /\ UNCHANGED <<filter, heartbeat, args, listing, idx, locals, history, faults>>

\* ---- download_log

\* one request round of the current call: the LOG_REQUEST_DATA sent (attempt, ofs)
\* and what recv_match returned for it (kind: "pending", "timeout" or "data")
Round(a, o, k, m) ==
  [attempt |-> a, ofs |-> o, kind |-> k, id |-> m.id, mofs |-> m.ofs, length |-> m.length]
NoData == LogData(0, 0, 0)
Answered(k, m) == [rounds EXCEPT ![Len(rounds)] = Round(attempt, offset, k, m)]

\* what a device with log i answers to a request for offset o
Answer(i, o) == LogData(i, o, Min(chunk_size, LogSize(i) - o))

\* for/while loop heads: `for attempt in range(retries)` is exhausted
ForEnd ==
  /\ pc = "loop"
  /\ ~(attempt < retries)
  /\ pc' = "after"
  /\ UNCHANGED <<filter, heartbeat, args, listing, idx, locals, history, faults>>

\* while offset < log_size: log_request_data_send(log_id, offset, chunk_size)
SendLogRequestData ==
  /\ pc = "loop"
  /\ attempt < retries
  /\ offset < log_size
  /\ rounds' = Append(rounds, Round(attempt, offset, "pending", NoData))
  /\ requested' = requested \cup {log_id}
  /\ pc' = "recv"
  /\ UNCHANGED <<filter, heartbeat, args, listing, idx, locals, completed, started,
                 outcome, files, faults>>

\* the while loop ends by its condition; then offset >= log_size: break
WhileEnd ==
  /\ pc = "loop"
  /\ attempt < retries
  /\ ~(offset < log_size)
  /\ IF offset >= log_size
       THEN /\ completed' = TRUE
            /\ pc' = "after"
            /\ UNCHANGED <<attempt, offset, log_data>>
       ELSE /\ offset' = 0
            /\ log_data' = <<>>
            /\ attempt' = attempt + 1
            /\ pc' = "loop"
            /\ UNCHANGED completed
  /\ UNCHANGED <<filter, heartbeat, args, listing, idx, log_id, log_size, rounds, started,
                 requested, outcome, files, faults>>

\* variant: a timeout returns from the attempts loop instead of starting the next attempt
RecvTimeout_GivesUp ==
  /\ pc = "recv"
  /\ Fault
  /\ rounds' = Answered("timeout", NoData)
  /\ pc' = "after"
  /\ UNCHANGED <<filter, heartbeat, args, listing, idx, locals, completed, started,
                 requested, outcome, files>>

\* recv_match returns None: break out of the while loop, then the else branch
\* of `if offset >= log_size` resets offset and log_data for the next attempt
RecvTimeout ==
  /\ pc = "recv"
  /\ Fault
  /\ rounds' = Answered("timeout", NoData)
  /\ IF offset >= log_size
       THEN /\ pc' = "after"
            /\ UNCHANGED <<attempt, offset, log_data>>
       ELSE /\ offset' = 0
            /\ log_data' = <<>>
            /\ attempt' = attempt + 1
            /\ pc' = "loop"
  /\ UNCHANGED <<filter, heartbeat, args, listing, idx, log_id, log_size, completed, started,
                 requested, outcome, files>>

\* variant: a LOG_DATA of another log is taken for the answer
RecvWrongId_Extends ==
  /\ pc = "recv"
  /\ Fault
  /\ \E i \in Ids \ {log_id} :
       LET msg == LogData(i, 0, Min(chunk_size, LogSize(i))) IN
       /\ log_data' = Join(log_data, Prefix(Bytes(msg.id, msg.ofs, DataLen), msg.length))
       /\ offset' = offset + msg.length
       /\ rounds' = [rounds EXCEPT ![Len(rounds)] =
                       [attempt |-> attempt, ofs |-> offset, kind |-> "data",
                        id |-> msg.id, mofs |-> msg.ofs, length |-> msg.length]]
  /\ pc' = "loop"
  /\ UNCHANGED <<filter, heartbeat, args, listing, idx, log_id, log_size, attempt, completed,
                 started, requested, outcome, files>>

\* variant: a LOG_DATA of another log restarts the transfer within the attempt
RecvWrongId_Restarts ==
  /\ pc = "recv"
  /\ Fault
  /\ \E i \in Ids \ {log_id} :
       LET msg == LogData(i, 0, Min(chunk_size, LogSize(i))) IN
       /\ msg.id # log_id
       /\ rounds' = [rounds EXCEPT ![Len(rounds)] =
                       [attempt |-> attempt, ofs |-> offset, kind |-> "data",
                        id |-> msg.id, mofs |-> msg.ofs, length |-> msg.length]]
  /\ offset' = 0
  /\ log_data' = <<>>
  /\ pc' = "loop"
  /\ UNCHANGED <<filter, heartbeat, args, listing, idx, log_id, log_size, attempt, completed,
                 started, requested, outcome, files>>

\* msg.id != log_id: continue (back to the head of the while loop)
RecvWrongId ==
  /\ pc = "recv"
  /\ Fault
  /\ \E i \in Ids \ {log_id} :
       LET msg == Answer(i, 0) IN
       /\ msg.id # log_id
       /\ rounds' = Answered("data", msg)
  /\ pc' = "loop"
  /\ UNCHANGED <<filter, heartbeat, args, listing, idx, locals, completed, started,
                 requested, outcome, files>>

\* the LOG_DATA messages of log_id the link may deliver now: the answer to the
\* pending request, and at the price of a fault the same with another declared
\* length, or the answer to an earlier request of this call
Stale == {Answer(log_id, rounds[k].ofs) : k \in 1..Len(rounds)} \ {Answer(log_id, offset)}
Deviant == {LogData(log_id, offset, n) : n \in Lengths} \ {Answer(log_id, offset)}

\* variant: log_data.extend(msg.data), the whole array
Extend_NoSlice(msg) ==
  /\ log_data' = Join(log_data, MsgData(msg))
  /\ offset' = offset + msg.length

\* log_data.extend(msg.data[:msg.length]); offset += msg.length
Extend(msg) ==
  /\ log_data' = Join(log_data, Prefix(MsgData(msg), msg.length))
  /\ offset' = offset + msg.length

RecvLogData ==
  /\ pc = "recv"
  /\ \E msg \in {Answer(log_id, offset)} \cup Stale \cup Deviant :
       /\ IF msg = Answer(log_id, offset) THEN faults' = faults ELSE Fault
       /\ msg.id = log_id
       /\ Extend(msg)
       /\ rounds' = Answered("data", msg)
  /\ pc' = "loop"
  /\ UNCHANGED <<filter, heartbeat, args, listing, idx, log_id, log_size, attempt, completed,
                 started, requested, outcome, files>>

\* how a call ended: the status decided at line 93 and whether the file was written
Outcome(s, w) == [id |-> log_id, size |-> log_size, status |-> s, written |-> w]

\* variant: a failed download ends the run instead of returning to the caller's loop
Failed_Aborts ==
  /\ pc = "after"
  /\ offset < log_size
  /\ outcome' = Append(outcome, Outcome("Exhausted", FALSE))
  /\ pc' = "done"
  /\ UNCHANGED <<filter, heartbeat, args, listing, idx, locals, rounds, completed, started,
                 requested, files, faults>>

\* if offset < log_size: "Failed to download", return
Failed ==
  /\ pc = "after"
  /\ offset < log_size
  /\ outcome' = Append(outcome, Outcome("Exhausted", FALSE))
  /\ pc' = "next"
  /\ UNCHANGED <<filter, heartbeat, args, listing, idx, locals, rounds, completed, started,
                 requested, files, faults>>

\* f.write(log_data[:log_size])
WriteFile ==
  /\ pc = "after"
  /\ ~(offset < log_size)
  /\ files' = Append(files, [id |-> log_id, size |-> log_size,
                             data |-> Prefix(log_data, log_size)])
  /\ outcome' = Append(outcome, Outcome("Success", TRUE))
  /\ pc' = "next"
  /\ UNCHANGED <<filter, heartbeat, args, listing, idx, locals, rounds, completed, started,
                 requested, faults>>

\* open() or write() raises OSError: nothing catches it, neither in download_log
\* nor in download_last_n_logs, and the process ends with a traceback
WriteError ==
  /\ pc = "after"
  /\ ~(offset < log_size)
  /\ Fault
  /\ outcome' = Append(outcome, Outcome("Success", FALSE))
  /\ pc' = "crashed"
  /\ UNCHANGED <<filter, heartbeat, args, listing, idx, locals, rounds, completed, started,
                 requested, files>>

Next ==
  \/ ConnectToDrone
  \/ SendLogRequestList
  \/ RecvLogEntry
  \/ LogEntryTimeout
  \/ RecvNoLogs
  \/ NoLogsFound
  \/ LogsFound
  \/ NextLog
  \/ LoopEnd
  \/ ForEnd
  \/ SendLogRequestData
  \/ WhileEnd
  \/ RecvTimeout
  \/ RecvWrongId
  \/ RecvLogData
  \/ Failed
  \/ WriteFile
  \/ WriteError

Spec == Init /\ [][Next]_vars

\* ---- a device that answers every request in time, with no bytes

\* recv_match returns a LOG_DATA of log_id that declares length 0: extend adds
\* nothing, offset += 0, neither break is taken and the while loop sends the same
\* request again. Nothing in the loop counts rounds, so the device may do this
\* any number of times; rounds keeps one record of a round that repeats
RecvZeroLength ==
  /\ pc = "recv"
  /\ LET msg == LogData(log_id, offset, 0)
         r == Round(attempt, offset, "data", msg)
     IN  /\ Extend(msg)
         /\ rounds' = IF Len(rounds) >= 2 /\ rounds[Len(rounds) - 1] = r
                        THEN SubSeq(rounds, 1, Len(rounds) - 1)
                        ELSE Answered("data", msg)
  /\ pc' = "loop"
  /\ UNCHANGED <<filter, heartbeat, args, listing, idx, log_id, log_size, attempt, completed,
                 started, requested, outcome, files, faults>>

NextStall == Next \/ RecvZeroLength

\* the script runs on: a step that can be taken is taken
SpecStall == Init /\ [][NextStall]_vars /\ WF_vars(NextStall)

\* ---- filter_log_no_gnss.py

download == <<pc, heartbeat, retries, num_logs, logs, list_end, log_list, idx, log_id,
              log_size, attempt, offset, log_data, rounds, completed, started, requested,
              outcome, files, faults>>

\* the set literal of has_gps_location
gps_messages ==
  {"GPS", "POS", "ORGN", "TERR", "AHR2", "EAHR", "MISSION_ITEM", "GLOBAL_POSITION_INT",
   "POSITION", "NAV_CONTROLLER_OUTPUT"}

\* the message types of the input log: those has_gps_location names and two it
\* does not, one with position fields (SIM) and one without (ATT)
MsgTypes == gps_messages \cup {"SIM", "ATT"}

\* the attribute names a message of type t has: has_gps_location tests the
\* dataflash types for Lat with Lng or with Lon, so a message has the one or the other
Layouts(t) ==
  IF t \in {"GPS", "POS", "ORGN", "TERR", "AHR2", "EAHR"} THEN {{"Lat", "Lng"}, {"Lat", "Lon"}}
  ELSE IF t = "SIM" THEN {{"Lat", "Lng"}}
  ELSE IF t = "GLOBAL_POSITION_INT" THEN {{"lat", "lon", "relative_alt"}}
  ELSE IF t = "POSITION" THEN {{"Lat", "Lon", "RelAlt"}}
  ELSE IF t = "NAV_CONTROLLER_OUTPUT" THEN {{"nav_bearing", "target_bearing"}}
  ELSE IF t = "MISSION_ITEM" THEN {{"x", "y"}}
  ELSE {{}}

\* a field is zero or not
FieldValues == {0, 1}

\* a message: what get_type() returns and the value of each attribute it has
Messages ==
  UNION {{[type |-> t, attrs |-> f] : f \in UNION {[L -> FieldValues] : L \in Layouts(t)}} :
         t \in MsgTypes}

\* `hasattr(message, h) and message.a != 0`: "False" when h is missing, and
\* reading a missing attribute a raises AttributeError
Check(message, h, a) ==
  IF h \notin DOMAIN message.attrs THEN "False"
  ELSE IF a \notin DOMAIN message.attrs THEN "AttributeError"
  ELSE IF message.attrs[a] # 0 THEN "True"
  ELSE "False"

\* `c or d`: d is evaluated only when c is false
OrElse(c, d) == IF c = "False" THEN d ELSE c

\* the if/elif chain of the try block
FieldChecks(message) ==
  LET t == message.type IN
  IF t \in {"GPS", "EAHR"}
    THEN OrElse(Check(message, "Lat", "Lat"), Check(message, "Lon", "Lon"))
  ELSE IF t \in {"POS", "ORGN", "TERR", "AHR2"}
    THEN OrElse(Check(message, "Lat", "Lat"), Check(message, "Lng", "Lon"))
  ELSE IF t = "GLOBAL_POSITION_INT"
    THEN OrElse(OrElse(Check(message, "lat", "lat"), Check(message, "lon", "lon")),
                Check(message, "relative_alt", "relative_alt"))
  ELSE IF t = "POSITION"
    THEN OrElse(OrElse(Check(message, "Lat", "Lat"), Check(message, "Lon", "Lon")),
                Check(message, "RelAlt", "RelAlt"))
  ELSE IF t = "NAV_CONTROLLER_OUTPUT"
    THEN OrElse(Check(message, "nav_bearing", "nav_bearing"),
                Check(message, "target_bearing", "target_bearing"))
  ELSE OrElse(Check(message, "x", "x"), Check(message, "y", "y"))

\* a type outside gps_messages gives False; `except AttributeError: return False`
has_gps_location(message) ==
  IF message.type \notin gps_messages THEN FALSE
  ELSE FieldChecks(message) = "True"

\* the input logs: every sequence of at most MaxLog messages
InputLogs == UNION {[1..n -> Messages] : n \in 0..MaxLog}

\* the state in which filter_log_no_gnss.py is started; download_logs.py is not run
FilterInit ==
  /\ pc = "off"
  /\ heartbeat = FALSE
  /\ retries = 0
  /\ num_logs = 0
  /\ logs = <<>>
  /\ list_end = ""
  /\ log_list = <<>>
  /\ idx = 0
  /\ log_id = 0
  /\ log_size = 0
  /\ attempt = 0
  /\ offset = 0
  /\ log_data = <<>>
  /\ rounds = <<>>
  /\ completed = FALSE
  /\ started = <<>>
  /\ requested = {}
  /\ outcome = <<>>
  /\ files = <<>>
  /\ faults = 0
  /\ fpc = "start"
  /\ mlog \in InputLogs
  /\ outfile = <<>>
  /\ seen = <<>>

\* if not os.path.exists(input_file): return
InputNotFound ==
  /\ fpc = "start"
  /\ fpc' = "end"
  /\ UNCHANGED <<download, mlog, outfile, seen>>

\* the input log and the output file are opened, the counters are zero
OpenFiles ==
  /\ fpc = "start"
  /\ outfile' = <<>>
  /\ fpc' = "read"
  /\ UNCHANGED <<download, mlog, seen>>

\* what the loop did with a message it read
Seen(message, d) == [msg |-> message, done |-> d]

\* has_gps_location(msg) is true: the message is counted as removed and not written
RemoveMessage ==
  /\ fpc = "read"
  /\ mlog # <<>>
  /\ LET msg == Head(mlog) IN
       /\ has_gps_location(msg)
       /\ seen' = Append(seen, Seen(msg, "removed"))
  /\ mlog' = Tail(mlog)
  /\ UNCHANGED <<download, fpc, outfile>>

\* has_gps_location(msg) is false: outfile.write(msg.get_msgbuf())
PassMessage ==
  /\ fpc = "read"
  /\ mlog # <<>>
  /\ LET msg == Head(mlog) IN
       /\ ~has_gps_location(msg)
       /\ outfile' = Append(outfile, msg)
       /\ seen' = Append(seen, Seen(msg, "passed"))
  /\ mlog' = Tail(mlog)
  /\ UNCHANGED <<download, fpc>>

\* get_msgbuf or write raises: the error is printed and the loop continues
PassError ==
  /\ fpc = "read"
  /\ mlog # <<>>
  /\ LET msg == Head(mlog) IN
       /\ ~has_gps_location(msg)
       /\ seen' = Append(seen, Seen(msg, "error"))
  /\ mlog' = Tail(mlog)
  /\ UNCHANGED <<download, fpc, outfile>>

\* recv_match returns None: end of file, the statistics are printed
EndOfFile ==
  /\ fpc = "read"
  /\ mlog = <<>>
  /\ fpc' = "end"
  /\ UNCHANGED <<download, mlog, outfile, seen>>

\* the counters the loop keeps
msg_count == Len(seen)
removed_count == Cardinality({k \in 1..Len(seen) : seen[k].done = "removed"})
passed_count == Cardinality({k \in 1..Len(seen) : seen[k].done = "passed"})

FilterNext ==
  \/ InputNotFound
  \/ OpenFiles
  \/ RemoveMessage
  \/ PassMessage
  \/ PassError
  \/ EndOfFile

SpecFilter == FilterInit /\ [][FilterNext]_vars

\* ---- the claims

\* a call of download_log has returned (or raised) and its locals are still in place
CallEnded == started # <<>> /\ Len(outcome) = Len(started)

\* the rounds of the current call whose recv_match timed out
TimedOut(k) == rounds[k].kind = "timeout"

\* C1: whenever download_log writes a file, the number of bytes written equals
\* the record's declared size (log_size), whatever lengths the device declares.
C1_WrittenLengthIsLogSize ==
  \A k \in 1..Len(files) : ByteLen(files[k].data) = files[k].size

\* C2: with retries = k >= 1 and log_size > 0, if every round of a call timed
\* out then the call made exactly k requests, one per attempt and each for
\* offset 0, ended Exhausted and wrote no file.
C2_AllTimeouts ==
  (/\ CallEnded
   /\ retries >= 1
   /\ log_size > 0
   /\ \A k \in 1..Len(rounds) : TimedOut(k))
  => /\ Len(rounds) = retries
     /\ \A k \in 1..Len(rounds) : rounds[k].ofs = 0 /\ rounds[k].attempt = k - 1
     /\ Last(outcome).status = "Exhausted"
     /\ ~Last(outcome).written
     /\ Len(files) = Cardinality({k \in 1..Len(outcome) : outcome[k].written})
     /\ \A k \in 1..Len(outcome) : outcome[k].written => outcome[k].status = "Success"

C2_Witness ==
  /\ CallEnded
  /\ retries = 2
  /\ log_size > 0
  /\ Len(rounds) = 2
  /\ \A k \in 1..Len(rounds) : TimedOut(k)
  /\ Last(outcome).status = "Exhausted"

\* C3: a LOG_DATA whose id differs from log_id leaves offset and log_data
\* unchanged, and no byte of such a message is in a file that is written.
WrongIdRound(r) == r.kind = "data" /\ r.id # log_id
RecvWrongIdStep == pc = "recv" /\ pc' # "recv" /\ WrongIdRound(Last(rounds'))
OwnBytesOnly == \A k \in 1..Len(files) : \A j \in 1..Len(files[k].data) :
                  files[k].data[j].id = files[k].id
C3_WrongIdIgnored ==
  /\ [][RecvWrongIdStep => offset' = offset /\ log_data' = log_data]_vars
  /\ []OwnBytesOnly

C3_Witness ==
  /\ CallEnded
  /\ Last(outcome).written
  /\ Last(files).data # <<>>
  /\ \E k \in 1..Len(rounds) : WrongIdRound(rounds[k])

\* C4: a call ends Success if and only if one of its attempts ran the while
\* loop to its end with offset >= log_size; otherwise it ends Exhausted and
\* writes nothing.
C4_SuccessIffCompleted ==
  CallEnded =>
    /\ (Last(outcome).status = "Success") <=> completed
    /\ Last(outcome).status # "Success" =>
         Last(outcome).status = "Exhausted" /\ ~Last(outcome).written

\* C5: when the call for one selected record ends Exhausted, the loop over the
\* selected records goes on: the run is not aborted by it, and when the run is
\* over every later selected record has been started.
Exhausted(i) == outcome[i].status = "Exhausted"
C5_ExhaustedContinues ==
  \A i \in 1..Len(outcome) :
    Exhausted(i) =>
      /\ (i = Len(started) => pc \in {"next", "done"})
      /\ (pc = "crashed" => i < Len(outcome))
      /\ (pc = "done" => Len(started) = Min(num_logs, Len(log_list)))

C5_Witness ==
  \E i \in 1..Len(outcome) : Exhausted(i) /\ i < Len(started) /\ pc = "done"

\* C6: a storage error while writing one record's file fails that record only:
\* the run is not aborted and goes on with the remaining selected records.
WriteFailed(i) == outcome[i].status = "Success" /\ ~outcome[i].written
C6_WriteErrorContinues ==
  \A i \in 1..Len(outcome) : WriteFailed(i) => pc # "crashed"

\* the ids of a list of log records
IdsOf(s) == [k \in 1..Len(s) |-> s[k].id]
Descending(s) == \A k \in 1..(Len(s) - 1) : s[k].id >= s[k + 1].id
Count(s, e) == Cardinality({k \in 1..Len(s) : s[k] = e})
SameEntries(s, t) ==
  /\ Len(s) = Len(t)
  /\ \A k \in 1..Len(s) : Count(s, s[k]) = Count(t, s[k])

\* request_log_list receives the LOG_ENTRY whose id is the advertised last_log_num
RecvFinalEntryStep ==
  /\ pc = "list_wait"
  /\ Len(logs') = Len(logs) + 1
  /\ Last(logs').id = LogEntry(Last(logs').id).last_log_num
\* request_log_list returns
ReturnStep == pc = "list_wait" /\ pc' # "list_wait"

\* C7 as claimed: request_log_list returns as soon as it receives the entry
\* whose id equals the advertised last log number.
C7_ReturnsOnFinalEntry == [][RecvFinalEntryStep => pc' # "list_wait"]_vars

\* C7 amended: receiving the entry whose id equals the advertised last log
\* number does not end request_log_list, which keeps waiting; it returns only
\* when a wait times out or the entry id = 0, num_logs = 0 arrives.
C7_ReturnsOnTimeoutOnly ==
  [][/\ RecvFinalEntryStep => pc' = "list_wait" /\ list_end' = ""
     /\ ReturnStep => list_end' \in {"timeout", "nologs"} /\ logs' = logs]_vars

C7_Witness ==
  /\ pc = "check"
  /\ list_end = "timeout"
  /\ logs # <<>>
  /\ Last(logs).id = LogEntry(Last(logs).id).last_log_num

\* C8 as claimed: request_log_list returns the entries in the order received.
C8_ArrivalOrder == [][ReturnStep => log_list' = logs]_vars

\* C8 amended: request_log_list itself returns the received entries sorted by
\* descending id, not in arrival order: for entries arriving with ids [3,1,2]
\* it returns [3,2,1].
C8_SortedDescending ==
  [][ReturnStep =>
       /\ SameEntries(logs, log_list')
       /\ Descending(log_list')
       /\ (IdsOf(logs) = <<3, 1, 2>> => IdsOf(log_list') = <<3, 2, 1>>)]_vars

C8_Witness ==
  /\ pc = "check"
  /\ IdsOf(logs) = <<3, 1, 2>>
  /\ IdsOf(log_list) = <<3, 2, 1>>

\* C9: download_log is called for exactly min(num_logs, catalog size) records,
\* those with the highest ids, in descending id order, and no other log is
\* named by a data request.
C9_LastNLogs ==
  /\ Descending(log_list)
  /\ Len(started) <= Min(num_logs, Len(log_list))
  /\ \A k \in 1..Len(started) : started[k] = log_list[k].id
  /\ requested \subseteq {started[k] : k \in 1..Len(started)}
  /\ (pc = "done" => Len(started) = Min(num_logs, Len(log_list)))

C9_Witness ==
  /\ pc = "done"
  /\ Len(log_list) = 3
  /\ num_logs = 2
  /\ Len(started) = 2
  /\ started[1] > started[2]

\* C10: when every request of a call is answered with min(chunk_size,
\* log_size - offset) bytes at the requested offset, the call issues exactly
\* ceil(log_size / chunk_size) requests, all in its first attempt, and ends
\* with log_size bytes in log_data; for log_size 200 these are three rounds
\* of 90, 90 and 20 bytes.
Ceil(a, b) == (a + b - 1) \div b
Lossless ==
  \A k \in 1..Len(rounds) :
    /\ rounds[k].kind = "data"
    /\ rounds[k].id = log_id
    /\ rounds[k].mofs = rounds[k].ofs
    /\ rounds[k].length = Min(chunk_size, log_size - rounds[k].ofs)
C10_LosslessRounds ==
  (CallEnded /\ retries >= 1 /\ Lossless) =>
    /\ Len(rounds) = Ceil(log_size, chunk_size)
    /\ \A k \in 1..Len(rounds) : rounds[k].attempt = 0
    /\ ByteLen(log_data) = log_size
    /\ Last(outcome).status = "Success"
    /\ (log_size = 200 => [k \in 1..Len(rounds) |-> rounds[k].length] = <<90, 90, 20>>)

C10_Witness ==
  /\ CallEnded
  /\ Lossless
  /\ log_size = 200
  /\ Len(rounds) = 3
  /\ Last(outcome).written
  /\ Last(files).data = Bytes(log_id, 0, 200)

\* C11: when the device at once reports that it has no logs (the entry id = 0,
\* num_logs = 0), request_log_list returns an empty list without error and
\* the run ends without a data request and without a file.
C11_NoLogs ==
  list_end = "nologs" =>
    /\ log_list = <<>>
    /\ pc \in {"check", "done"}
    /\ started = <<>>
    /\ requested = {}
    /\ files = <<>>

C11_Witness == list_end = "nologs" /\ pc = "done"

\* C12: when no heartbeat arrives within the wait, the run is aborted: no list
\* request and no data request is sent afterwards.
C12_NoHeartbeatAborts ==
  ~heartbeat => pc = "connect" /\ requested = {}

\* C13: over a fully reliable link the files a run writes are a function of
\* the catalog and the arguments alone, each holding exactly the device's
\* log, so two runs against the same catalog write byte-identical contents.
ExpectedFiles(list, n, k) ==
  LET sel == SelectSeq(Take(list, n), LAMBDA r : k >= 1 \/ r.size = 0)
  IN  [j \in 1..Len(sel) |->
         [id |-> sel[j].id, size |-> sel[j].size, data |-> Bytes(sel[j].id, 0, sel[j].size)]]
C13_ReliableRunsAgree ==
  faults = 0 =>
    /\ files = Take(ExpectedFiles(log_list, num_logs, retries), Len(files))
    /\ (pc = "done" => files = ExpectedFiles(log_list, num_logs, retries))
    /\ pc # "crashed"

C13_Witness ==
  /\ faults = 0
  /\ pc = "done"
  /\ Len(files) = 2
  /\ files[1].size = 200
  /\ files[2].size = 20

\* a call of download_log is under way
InCall == pc \in {"loop", "recv", "after"}

\* C14 as claimed: offset never decreases within an attempt and
\* offset <= log_size holds in every state of an attempt.
C14_OffsetWithinSize == InCall => offset <= log_size

\* C14 amended: offset never decreases within an attempt and is below log_size
\* whenever a request is sent, but it is not bounded by log_size: a LOG_DATA
\* whose declared length exceeds the remaining bytes pushes offset past
\* log_size, by less than that length.
C14_OffsetMonotone ==
  /\ \A j, k \in 1..Len(rounds) :
       j < k /\ rounds[j].attempt = rounds[k].attempt => rounds[j].ofs <= rounds[k].ofs
  /\ \A k \in 1..Len(rounds) : rounds[k].ofs < log_size
  /\ (InCall /\ rounds # <<>> /\ Last(rounds).attempt = attempt) =>
       /\ offset >= Last(rounds).ofs
       /\ offset > log_size =>
            /\ Last(rounds).kind = "data"
            /\ Last(rounds).id = log_id
            /\ offset = Last(rounds).ofs + Last(rounds).length
            /\ Last(rounds).length > log_size - Last(rounds).ofs
  /\ (InCall /\ (rounds = <<>> \/ Last(rounds).attempt # attempt)) => offset = 0

C14_Witness == pc = "loop" /\ offset > log_size /\ Len(rounds) >= 2

\* C15: in every state of an attempt the length of log_data equals offset,
\* also when a LOG_DATA declares a length other than the bytes it carries.
C15_BufferLenIsOffset == InCall => ByteLen(log_data) = offset

\* C17: at most one data request of a log is in flight: no request is sent
\* while an earlier one is unanswered; after a LOG_DATA of another log the
\* fetcher keeps waiting for the answer instead of sending a new request.
Unanswered(k) ==
  \/ rounds[k].kind = "pending"
  \/ /\ WrongIdRound(rounds[k])
     /\ \A j \in (k + 1)..Len(rounds) : ~(rounds[j].kind = "data" /\ rounds[j].id = log_id)
C17_OneRequestInFlight ==
  InCall => Cardinality({k \in 1..Len(rounds) : Unanswered(k)}) <= 1

\* C18: the list request_log_list returns never holds two records with the
\* same id, whatever LOG_ENTRY messages arrive, so no log is transferred twice.
C18_UniqueIds ==
  /\ \A j, k \in 1..Len(log_list) : j # k => log_list[j].id # log_list[k].id
  /\ \A j, k \in 1..Len(started) : j # k => started[j] # started[k]

\* C20: when every LOG_DATA of log_id that arrives is a true answer of the
\* device to some request of the call (possibly a delayed or duplicated one),
\* a written file holds the device's log: byte i of the file is byte i of the log.
TrueAnswers ==
  \A k \in 1..Len(rounds) :
    (rounds[k].kind = "data" /\ rounds[k].id = log_id) =>
      /\ rounds[k].length = Min(chunk_size, log_size - rounds[k].mofs)
      /\ \E j \in 1..k : rounds[j].ofs = rounds[k].mofs
C20_FileIsDeviceLog ==
  (CallEnded /\ Last(outcome).written /\ TrueAnswers) =>
    Last(files).data = Bytes(log_id, 0, log_size)

\* C16: every transfer terminates: a device that keeps answering in time with
\* zero-length LOG_DATA of the requested log is detected and the attempt fails,
\* so every call of download_log returns.
C16_TransferTerminates == InCall ~> CallEnded

\* C19: when the wait for a LOG_ENTRY times out, request_log_list returns
\* without an error a list that holds exactly the entries received before the
\* timeout, and download_last_n_logs goes on with that list when it is not empty.
LogEntryTimeoutStep == pc = "list_wait" /\ list_end' = "timeout"
PositionTypes ==
  {"GPS", "POS", "ORGN", "TERR", "AHR2", "EAHR", "GLOBAL_POSITION_INT", "POSITION",
   "MISSION_ITEM"}
LatName(t) ==
  IF t = "GLOBAL_POSITION_INT" THEN "lat" ELSE IF t = "MISSION_ITEM" THEN "x" ELSE "Lat"
LonName(t) ==
  IF t \in {"POS", "ORGN", "TERR", "AHR2"} THEN "Lng"
  ELSE IF t = "GLOBAL_POSITION_INT" THEN "lon"
  ELSE IF t = "MISSION_ITEM" THEN "y"
  ELSE "Lon"
NonZero(m, a) == a \in DOMAIN m.attrs /\ m.attrs[a] # 0
CarriesLocation(m) ==
  /\ m.type \in PositionTypes
  /\ NonZero(m, LatName(m.type)) \/ NonZero(m, LonName(m.type))
C21_LocationRemoved ==
  \A k \in 1..Len(seen) : CarriesLocation(seen[k].msg) => seen[k].done = "removed"
C21_OthersPassed ==
  \A k \in 1..Len(seen) : seen[k].msg.type \notin PositionTypes => seen[k].done # "removed"
C21_FilterRemovesLocations == C21_LocationRemoved /\ C21_OthersPassed
====
